---- MODULE Spec2Model ----
(***************************************************************************)
(* A model of youtube_dashboard.py: one Streamlit script run (load_tables,  *)
(* sidebar widgets, date filter, numeric coercion, engagement rate, top-N  *)
(* rankings, KPI rows, charts, final table) and the TTL cache in front of  *)
(* load_tables shared by the sessions of one server process.               *)
(***************************************************************************)
EXTENDS Integers, Sequences, FiniteSets, TLC

\* ------------------------------------------------------------------ bounds
MaxRows == 4
MaxEngageRows == 2
MaxDateRows == 2
MaxLongRows == 11
MaxDay == 2
MaxCount == 2
MaxPermLen == 4
TickStep == 5

\* ------------------------------------------------------- program constants
DayMs == 86400000
SecMs == 1000
TopNMin == 3
TopNDefault == 10
TopNMax == 50
PieN == 10
Ttl == 30
AutoRefresh == 60

\* ------------------------------------------------------------ value domains
\* A cell of a table read by pd.read_sql: a number, SQL NULL, or a
\* non-numeric string.
Num(v) == [k |-> "num", v |-> v]
Null == [k |-> "null", v |-> 0]
Bad == [k |-> "bad", v |-> 0]

\* A datetime64 value: NaT or a number of milliseconds.
Ts(t) == [nat |-> FALSE, t |-> t]
NaT == [nat |-> TRUE, t |-> 0]

\* A float: a rational n/d (d > 0), inf, NaN, or pd.NA.
Rat(n, d) == [k |-> "num", n |-> n, d |-> d]
Inf == [k |-> "inf", n |-> 0, d |-> 1]
NaN == [k |-> "nan", n |-> 0, d |-> 1]
NA == [k |-> "na", n |-> 0, d |-> 1]

Max(a, b) == IF a >= b THEN a ELSE b
Min(a, b) == IF a <= b THEN a ELSE b

RECURSIVE GCD(_, _)
GCD(a, b) == IF b = 0 THEN a ELSE GCD(b, a % b)

\* A rational in lowest terms.
Norm(n, d) == IF n = 0 THEN Rat(0, 1) ELSE LET g == GCD(n, d) IN Rat(n \div g, d \div g)

FloatLT(a, b) ==
    IF a.k = "num" /\ b.k = "num" THEN a.n * b.d < b.n * a.d
    ELSE a.k = "num" /\ b.k = "inf"

FloatEQ(a, b) ==
    IF a.k = "num" /\ b.k = "num" THEN a.n * b.d = b.n * a.d
    ELSE a.k = "inf" /\ b.k = "inf"

Range(s) == {s[i] : i \in 1..Len(s)}

RECURSIVE SumSeq(_)
SumSeq(s) == IF s = <<>> THEN 0 ELSE Head(s) + SumSeq(Tail(s))

VARIABLES
    \* one script run
    pc, err,
    video_stats, channel_stats,
    videos_df, channel_df, channel_history_df,
    date_col, date_enabled, start_date, end_date, top_n,
    filtered_videos, df_top_n,
    kpi,
    totals, avg_engagement, mv, ml, md,
    top_eng, top_likes, top_dislikes,
    table_cols, table,
    \* the st.cache_data entry of load_tables and the sessions that share it
    cache, sess

runVars == <<pc, err, video_stats, channel_stats, videos_df, channel_df,
             channel_history_df, date_col, date_enabled, start_date, end_date,
             top_n, filtered_videos, df_top_n, kpi, totals, avg_engagement,
             mv, ml, md, top_eng, top_likes, top_dislikes, table_cols, table>>

cacheVars == <<cache, sess>>

vars == <<runVars, cacheVars>>

\* ------------------------------------------------------------------ tables
VideoCols == {"title", "views", "likes", "dislikes", "comments",
              "published_at", "fetched_at"}
ChannelCols == {"subscribers", "total_views", "total_videos", "fetched_at"}

EmptyTable == [cols |-> {}, rows |-> <<>>]

VRow(t, v, l, d, c, p, f) ==
    [title |-> t, views |-> v, likes |-> l, dislikes |-> d, comments |-> c,
     published_at |-> p, fetched_at |-> f]

CRow(s, tv, n, f) ==
    [subscribers |-> s, total_views |-> tv, total_videos |-> n, fetched_at |-> f]

\* ------------------------------------------------- load_tables (lines 19-39)
\* The three queries ORDER BY fetched_at: a table without that column makes
\* the query, and so the script, fail.  The store keeps channel_stats in
\* ascending and video_stats in descending fetched_at order, so the latest
\* channel row is the last one.
QueryFails == "fetched_at" \notin video_stats.cols
              \/ "fetched_at" \notin channel_stats.cols

ChannelLatest ==
    [cols |-> channel_stats.cols,
     rows |-> IF channel_stats.rows = <<>> THEN <<>>
              ELSE <<channel_stats.rows[Len(channel_stats.rows)]>>]

\* ------------------------------------------------ sidebar (lines 47-61)
AllNull(df, col) == \A i \in 1..Len(df.rows) : df.rows[i][col].nat

\* A variant of DateCol: published_at is passed over when it is null in every row.
DateColNonNull(df) ==
    IF "published_at" \in df.cols /\ ~AllNull(df, "published_at")
    THEN "published_at" ELSE "fetched_at"

DateCol(df) == IF "published_at" \in df.cols THEN "published_at" ELSE "fetched_at"

DateEnabled(df) == DateCol(df) \in df.cols /\ ~AllNull(df, DateCol(df))

DateOf(ts) == ts.t \div DayMs

Dates(df) == {DateOf(df.rows[i][DateCol(df)]) :
                i \in {j \in 1..Len(df.rows) : ~df.rows[j][DateCol(df)].nat}}

MinDate(df) == CHOOSE d \in Dates(df) : \A e \in Dates(df) : d <= e
MaxDate(df) == CHOOSE d \in Dates(df) : \A e \in Dates(df) : d >= e

\* What st.sidebar.date_input can return for a range widget: no date, the
\* start alone while the user is still picking, or a start and an end.
DateInputValues(lo, hi) ==
    LET D == lo..hi
    IN {<<>>} \cup {<<d>> : d \in D} \cup {q \in D \X D : q[1] <= q[2]}

StartEnd(date_range, lo, hi) ==
    IF Len(date_range) = 2 THEN date_range ELSE <<lo, hi>>

\* ------------------------------------------- date filter (lines 73-79)
StartTs(d) == d * DayMs
\* A variant of EndTs: the end bound stays at midnight.
EndTsMidnight(d) == d * DayMs
EndTs(d) == d * DayMs + DayMs - SecMs

InRange(ts, s, e) == ~ts.nat /\ ts.t >= StartTs(s) /\ ts.t <= EndTs(e)

\* The rows of the frame carry their index label idx (the RangeIndex of
\* videos_df), which boolean indexing and sorting keep.
Indexed(df) == [i \in 1..Len(df.rows) |-> [idx |-> i, raw |-> df.rows[i]]]

FilterByDate(df, dcol, enabled, s, e) ==
    IF enabled /\ dcol \in df.cols
    THEN LET all == Indexed(df)
             F[i \in 0..Len(all)] ==
                 IF i = 0 THEN <<>>
                 ELSE IF InRange(all[i].raw[dcol], s, e)
                      THEN Append(F[i - 1], all[i]) ELSE F[i - 1]
         IN F[Len(all)]
    ELSE Indexed(df)

\* ------------------------------------ numeric coercion (lines 82-85)
\* pd.to_numeric(errors="coerce") turns NULL and non-numeric values into NaN,
\* fillna(0) turns NaN into 0; a missing column is created as 0.
ToNumeric(cell) == IF cell.k = "num" THEN Rat(cell.v, 1) ELSE NaN
FillNa(x, v) == IF x.k \in {"nan", "na"} THEN v ELSE x

Coerce(df, raw, col) ==
    IF col \notin df.cols THEN 0
    ELSE FillNa(ToNumeric(raw[col]), Rat(0, 1)).n

\* ------------------------------------ engagement rate (lines 88-91)
\* A variant of ReplaceZero: zero views are left in the denominator.
ReplaceZeroKept(v) == Rat(v, 1)
ReplaceZero(v) == IF v = 0 THEN NA ELSE Rat(v, 1)

Divide(num, den) ==
    IF den.k = "na" THEN NA
    ELSE IF den.n = 0 THEN (IF num = 0 THEN NaN ELSE Inf)
    ELSE Norm(num * den.d, den.n)

EngagementRate(likes, comments, views) ==
    FillNa(Divide(likes + comments, ReplaceZero(views)), Rat(0, 1))

Prepared(df, r) ==
    LET v == Coerce(df, r.raw, "views")
        l == Coerce(df, r.raw, "likes")
        d == Coerce(df, r.raw, "dislikes")
        c == Coerce(df, r.raw, "comments")
    IN [idx |-> r.idx, title |-> r.raw.title,
        views |-> v, likes |-> l, dislikes |-> d, comments |-> c,
        published_at |-> r.raw.published_at, fetched_at |-> r.raw.fetched_at,
        engagement_rate |-> EngagementRate(l, c, v)]

PrepareRows(df, rows) == [i \in 1..Len(rows) |-> Prepared(df, rows[i])]

\* ------------------------------------------- rankings (lines 94, 203, 223)
KeyOf(r, key) == IF key = "engagement_rate" THEN r.engagement_rate ELSE Rat(r[key], 1)

RemoveAt(s, i) == SubSeq(s, 1, i - 1) \o SubSeq(s, i + 1, Len(s))

FirstMaxPos(rows, key) ==
    CHOOSE i \in 1..Len(rows) :
        /\ \A j \in 1..Len(rows) : ~FloatLT(KeyOf(rows[i], key), KeyOf(rows[j], key))
        /\ \A j \in 1..(i - 1) : FloatLT(KeyOf(rows[j], key), KeyOf(rows[i], key))

LastMaxPos(rows, key) ==
    CHOOSE i \in 1..Len(rows) :
        /\ \A j \in 1..Len(rows) : ~FloatLT(KeyOf(rows[i], key), KeyOf(rows[j], key))
        /\ \A j \in (i + 1)..Len(rows) : FloatLT(KeyOf(rows[j], key), KeyOf(rows[i], key))

RECURSIVE SortDescStable(_, _)
SortDescStable(rows, key) ==
    IF rows = <<>> THEN <<>>
    ELSE LET i == FirstMaxPos(rows, key)
         IN <<rows[i]>> \o SortDescStable(RemoveAt(rows, i), key)

RECURSIVE SortDescReversedTies(_, _)
SortDescReversedTies(rows, key) ==
    IF rows = <<>> THEN <<>>
    ELSE LET i == LastMaxPos(rows, key)
         IN <<rows[i]>> \o SortDescReversedTies(RemoveAt(rows, i), key)

HeadN(rows, n) == SubSeq(rows, 1, Min(n, Len(rows)))

\* A variant of NLargest: the first n rows, unsorted.
NLargestUnsorted(n, rows, key) == HeadN(rows, n)

\* DataFrame.nlargest(n, key), keep="first": the n largest, descending, equal
\* keys in their original order.
NLargest(n, rows, key) == HeadN(SortDescStable(rows, key), n)

IsDescending(rows, key) ==
    \A i \in 1..(Len(rows) - 1) : ~FloatLT(KeyOf(rows[i], key), KeyOf(rows[i + 1], key))

Arrangements(rows) ==
    LET n == Len(rows)
        P == {f \in [1..n -> 1..n] : \A i \in 1..n : \E j \in 1..n : f[j] = i}
    IN {[i \in 1..n |-> rows[f[i]]] : f \in P}

\* DataFrame.sort_values(key, ascending=False) with the default
\* kind="quicksort", which is not stable: any descending arrangement of the
\* rows may come out.  Frames longer than MaxPermLen are given two of the
\* arrangements, equal keys in original and in reversed order.
SortValuesDesc(rows, key) ==
    IF Len(rows) <= MaxPermLen
    THEN {p \in Arrangements(rows) : IsDescending(p, key)}
    ELSE {SortDescStable(rows, key), SortDescReversedTies(rows, key)}

\* ---------------------------------- channel overview KPIs (lines 100-120)
Shown(n, d) == [k |-> "val", n |-> n, d |-> d]
NotAvailable == [k |-> "na", n |-> 0, d |-> 1]

\* df[col].iloc[0] raises KeyError without the column and IndexError without
\* a row.
Readable(df, col) == col \in df.cols /\ df.rows # <<>>

\* A variant of KpiInt: one try block around the whole KPI row.
KpiIntAllOrNothing(df, col) ==
    IF \A c \in {"subscribers", "total_views", "total_videos"} :
          Readable(df, c) /\ df.rows[1][c].k = "num"
    THEN Shown(df.rows[1][col].v, 1)
    ELSE NotAvailable

\* int(None) and int("n/a") raise; the except branch shows N/A.
KpiInt(df, col) ==
    IF Readable(df, col) /\ df.rows[1][col].k = "num"
    THEN Shown(df.rows[1][col].v, 1)
    ELSE NotAvailable

\* A variant of AvgViews: the denominator is not clamped.
AvgViewsUnclamped(total_views, total_videos) ==
    IF total_videos = 0 THEN NotAvailable ELSE Shown(total_views, total_videos)

AvgViews(total_views, total_videos) == Shown(total_views, Max(total_videos, 1))

KpiAvg(df) ==
    IF /\ Readable(df, "total_views") /\ Readable(df, "total_videos")
       /\ df.rows[1].total_views.k = "num" /\ df.rows[1].total_videos.k = "num"
    THEN AvgViews(df.rows[1].total_views.v, df.rows[1].total_videos.v)
    ELSE NotAvailable

ChannelKpis(df) ==
    [subscribers |-> KpiInt(df, "subscribers"),
     total_views |-> KpiInt(df, "total_views"),
     total_videos |-> KpiInt(df, "total_videos"),
     avg_views |-> KpiAvg(df)]

\* ---------------------------------- engagement metrics (lines 126-151)
SumCol(rows, col) == SumSeq([i \in 1..Len(rows) |-> rows[i][col]])

FloatAdd(a, b) ==
    IF a.k = "num" /\ b.k = "num" THEN Norm(a.n * b.d + b.n * a.d, a.d * b.d)
    ELSE IF a.k = "nan" \/ b.k = "nan" THEN NaN ELSE Inf

RECURSIVE FloatSum(_)
FloatSum(s) == IF s = <<>> THEN Rat(0, 1) ELSE FloatAdd(Head(s), FloatSum(Tail(s)))

Mean(s) ==
    LET t == FloatSum(s)
    IN IF t.k = "num" THEN Norm(t.n, t.d * Len(s)) ELSE t

AvgEngagement(rows) ==
    IF rows # <<>> THEN Mean([i \in 1..Len(rows) |-> rows[i].engagement_rate])
    ELSE Rat(0, 1)

Totals(rows) ==
    [likes |-> SumCol(rows, "likes"), dislikes |-> SumCol(rows, "dislikes"),
     comments |-> SumCol(rows, "comments"), views |-> SumCol(rows, "views")]

\* filtered_videos.loc[filtered_videos[col].idxmax()]: the first row holding
\* the maximum.
ArgMaxFiltered(rows, col) ==
    LET r == rows[FirstMaxPos(rows, col)]
    IN [src |-> "filtered", idx |-> r.idx, title |-> r.title, value |-> r[col]]

\* The fallback reads the columns of videos_df as loaded: a missing column is
\* a KeyError, a non-numeric string cannot be compared or converted, and an
\* all-NULL column has no maximum.
NumPositions(df, col) == {i \in 1..Len(df.rows) : df.rows[i][col].k = "num"}

FallbackRaises(df, col) ==
    \/ col \notin df.cols
    \/ \E i \in 1..Len(df.rows) : df.rows[i][col].k = "bad"
    \/ NumPositions(df, col) = {}

ArgMaxGlobal(df, col) ==
    LET P == NumPositions(df, col)
        i == CHOOSE p \in P : /\ \A q \in P : df.rows[q][col].v <= df.rows[p][col].v
                              /\ \A q \in P : q < p => df.rows[q][col].v < df.rows[p][col].v
    IN [src |-> "global", idx |-> i, title |-> df.rows[i].title,
        value |-> df.rows[i][col].v]

\* A variant of MostOf: no fallback to videos_df.
MostOfNoFallback(rows, df, col) ==
    IF rows # <<>> THEN <<ArgMaxFiltered(rows, col)>> ELSE <<>>

\* mv / ml / md: a sequence holding the row, or the empty sequence for None.
MostOf(rows, df, col) ==
    IF rows # <<>> THEN <<ArgMaxFiltered(rows, col)>>
    ELSE IF df.rows # <<>> THEN <<ArgMaxGlobal(df, col)>>
    ELSE <<>>

MostRaises(rows, df) ==
    /\ rows = <<>>
    /\ df.rows # <<>>
    /\ \E col \in {"views", "likes", "dislikes"} : FallbackRaises(df, col)

\* ------------------------------------------------ charts (lines 171-237)
\* plotly express rejects a column name the frame does not have.
GrowthChartRaises(history) == history.rows # <<>> /\ "subscribers" \notin history.cols
VideoChartsRaise(rows, df) == rows # <<>> /\ "title" \notin df.cols

TopDislikes(rows) ==
    IF SumCol(rows, "dislikes") > 0 THEN NLargest(PieN, rows, "dislikes") ELSE <<>>

\* ------------------------------------------ final table (lines 241-242)
TableCols(df, dcol) ==
    IF dcol \in df.cols
    THEN <<"title", "views", "likes", "dislikes", "comments", dcol>>
    ELSE <<"title", "views", "likes", "dislikes", "comments">>

TableRaises(df) == "title" \notin df.cols

TableRow(r, dcol) ==
    [title |-> r.title, views |-> r.views, likes |-> r.likes,
     dislikes |-> r.dislikes, comments |-> r.comments, date |-> r[dcol]]

LatestTable(rows, dcol) == [i \in 1..Len(rows) |-> TableRow(rows[i], dcol)]

\* ================================================================ actions
\* What the script has not computed yet.
NoKpi == [subscribers |-> NotAvailable, total_views |-> NotAvailable,
          total_videos |-> NotAvailable, avg_views |-> NotAvailable]
NoTotals == [likes |-> 0, dislikes |-> 0, comments |-> 0, views |-> 0]

Fresh ==
    /\ err = "none"
    /\ videos_df = EmptyTable /\ channel_df = EmptyTable
    /\ channel_history_df = EmptyTable
    /\ date_col = "" /\ date_enabled = FALSE
    /\ start_date = <<>> /\ end_date = <<>>
    /\ filtered_videos = <<>> /\ df_top_n = <<>>
    /\ kpi = NoKpi /\ totals = NoTotals /\ avg_engagement = Rat(0, 1)
    /\ mv = <<>> /\ ml = <<>> /\ md = <<>>
    /\ top_eng = <<>> /\ top_likes = <<>> /\ top_dislikes = <<>>
    /\ table_cols = <<>> /\ table = <<>>

Raise(where) == pc' = "error" /\ err' = where

\* lines 19-39
LoadTables ==
    /\ pc = "load"
    /\ IF QueryFails
       THEN /\ Raise("load_tables")
            /\ UNCHANGED <<videos_df, channel_df, channel_history_df>>
       ELSE /\ videos_df' = video_stats
            /\ channel_df' = ChannelLatest
            /\ channel_history_df' = channel_stats
            /\ pc' = "sidebar"
            /\ err' = err
    /\ UNCHANGED <<video_stats, channel_stats, date_col, date_enabled,
                   start_date, end_date, top_n, filtered_videos, df_top_n, kpi,
                   totals, avg_engagement, mv, ml, md, top_eng, top_likes,
                   top_dislikes, table_cols, table, cacheVars>>

\* lines 47-61: the date range the user has picked
Sidebar ==
    /\ pc = "sidebar"
    /\ date_col' = DateCol(videos_df)
    /\ date_enabled' = DateEnabled(videos_df)
    /\ IF DateEnabled(videos_df)
       THEN \E date_range \in DateInputValues(MinDate(videos_df), MaxDate(videos_df)) :
               LET se == StartEnd(date_range, MinDate(videos_df), MaxDate(videos_df))
               IN start_date' = <<se[1]>> /\ end_date' = <<se[2]>>
       ELSE start_date' = <<>> /\ end_date' = <<>>
    /\ pc' = "prepare"
    /\ UNCHANGED <<err, video_stats, channel_stats, videos_df, channel_df,
                   channel_history_df, top_n, filtered_videos, df_top_n, kpi,
                   totals, avg_engagement, mv, ml, md, top_eng, top_likes,
                   top_dislikes, table_cols, table, cacheVars>>

\* lines 73-94
FilteredVideos ==
    PrepareRows(videos_df,
        FilterByDate(videos_df, date_col, start_date # <<>> /\ end_date # <<>>,
                     IF start_date # <<>> THEN start_date[1] ELSE 0,
                     IF end_date # <<>> THEN end_date[1] ELSE 0))

PrepareFiltered ==
    /\ pc = "prepare"
    /\ filtered_videos' = FilteredVideos
    /\ df_top_n' = NLargest(top_n, FilteredVideos, "views")
    /\ pc' = "overview"
    /\ UNCHANGED <<err, video_stats, channel_stats, videos_df, channel_df,
                   channel_history_df, date_col, date_enabled, start_date,
                   end_date, top_n, kpi, totals, avg_engagement, mv, ml, md,
                   top_eng, top_likes, top_dislikes, table_cols, table, cacheVars>>

\* lines 97-120
ChannelOverview ==
    /\ pc = "overview"
    /\ kpi' = ChannelKpis(channel_df)
    /\ pc' = "metrics"
    /\ UNCHANGED <<err, video_stats, channel_stats, videos_df, channel_df,
                   channel_history_df, date_col, date_enabled, start_date,
                   end_date, top_n, filtered_videos, df_top_n, totals,
                   avg_engagement, mv, ml, md, top_eng, top_likes, top_dislikes,
                   table_cols, table, cacheVars>>

\* lines 123-165
EngagementMetrics ==
    /\ pc = "metrics"
    /\ totals' = Totals(filtered_videos)
    /\ avg_engagement' = AvgEngagement(filtered_videos)
    /\ IF MostRaises(filtered_videos, videos_df)
       THEN Raise("fallback argmax") /\ UNCHANGED <<mv, ml, md>>
       ELSE /\ mv' = MostOf(filtered_videos, videos_df, "views")
            /\ ml' = MostOf(filtered_videos, videos_df, "likes")
            /\ md' = MostOf(filtered_videos, videos_df, "dislikes")
            /\ pc' = "charts"
            /\ err' = err
    /\ UNCHANGED <<video_stats, channel_stats, videos_df, channel_df,
                   channel_history_df, date_col, date_enabled, start_date,
                   end_date, top_n, filtered_videos, df_top_n, kpi, top_eng,
                   top_likes, top_dislikes, table_cols, table, cacheVars>>

\* lines 168-237
Charts ==
    /\ pc = "charts"
    /\ IF GrowthChartRaises(channel_history_df)
       THEN Raise("growth chart") /\ UNCHANGED <<top_eng, top_likes, top_dislikes>>
       ELSE IF VideoChartsRaise(filtered_videos, videos_df)
       THEN Raise("video charts") /\ UNCHANGED <<top_eng, top_likes, top_dislikes>>
       ELSE /\ \E sorted \in SortValuesDesc(filtered_videos, "engagement_rate") :
                  top_eng' = HeadN(sorted, top_n)
            /\ top_likes' = NLargest(PieN, filtered_videos, "likes")
            /\ top_dislikes' = TopDislikes(filtered_videos)
            /\ pc' = "table"
            /\ err' = err
    /\ UNCHANGED <<video_stats, channel_stats, videos_df, channel_df,
                   channel_history_df, date_col, date_enabled, start_date,
                   end_date, top_n, filtered_videos, df_top_n, kpi, totals,
                   avg_engagement, mv, ml, md, table_cols, table, cacheVars>>

\* lines 240-242
LatestVideoTable ==
    /\ pc = "table"
    /\ IF TableRaises(videos_df)
       THEN Raise("final table") /\ UNCHANGED <<table_cols, table>>
       ELSE /\ table_cols' = TableCols(videos_df, date_col)
            /\ table' = LatestTable(filtered_videos, date_col)
            /\ pc' = "done"
            /\ err' = err
    /\ UNCHANGED <<video_stats, channel_stats, videos_df, channel_df,
                   channel_history_df, date_col, date_enabled, start_date,
                   end_date, top_n, filtered_videos, df_top_n, kpi, totals,
                   avg_engagement, mv, ml, md, top_eng, top_likes, top_dislikes,
                   cacheVars>>

\* line 61 and line 246: the script runs again from the top, after the
\* auto-refresh interval or after the user has moved the top-N slider.
TopNValues == {TopNMin, TopNDefault, TopNMax}

Rerun ==
    /\ pc = "done"
    /\ pc' = "load"
    /\ \E n \in TopNValues : top_n' = n
    /\ err' = "none"
    /\ videos_df' = EmptyTable /\ channel_df' = EmptyTable
    /\ channel_history_df' = EmptyTable
    /\ date_col' = "" /\ date_enabled' = FALSE
    /\ start_date' = <<>> /\ end_date' = <<>>
    /\ filtered_videos' = <<>> /\ df_top_n' = <<>>
    /\ kpi' = NoKpi /\ totals' = NoTotals /\ avg_engagement' = Rat(0, 1)
    /\ mv' = <<>> /\ ml' = <<>> /\ md' = <<>>
    /\ top_eng' = <<>> /\ top_likes' = <<>> /\ top_dislikes' = <<>>
    /\ table_cols' = <<>> /\ table' = <<>>
    /\ UNCHANGED <<video_stats, channel_stats, cacheVars>>

RunNext ==
    \/ LoadTables
    \/ Sidebar
    \/ PrepareFiltered
    \/ ChannelOverview
    \/ EngagementMetrics
    \/ Charts
    \/ LatestVideoTable
    \/ Rerun

\* ================================================= the cache of load_tables
\* Time is counted in seconds and advances TickStep at a time.  A cache
\* entry holds the age of the tables it keeps and, for the record, the
\* sessions that pressed "Refresh Data Now" after those tables were read.
\* A session holds the position of its script run (load: line 31, button:
\* line 64, render: lines 72-251), the value of the button in this run, whether
\* this run is the one st.rerun() started after a press, the tables
\* load_tables returned to it (their age at that call), and the seconds since
\* its auto-refresh timer last fired.
Sessions == {"a", "b"}

NoData == [age |-> 0, stale |-> FALSE]
IdleSession == [pc |-> "idle", button |-> FALSE, follows |-> FALSE,
                data |-> NoData, timer |-> 0]

AgeCap == Ttl + TickStep

\* @st.cache_data(ttl=30): an entry younger than the TTL is returned, an older
\* one is not; at exactly the TTL either may happen.
CanHit(c) == c # <<>> /\ c[1].age <= Ttl
CanMiss(c) == c = <<>> \/ c[1].age >= Ttl

ReadStore == [age |-> 0, stale |-> {}]

\* A variant of Cleared: the cache is left as it is.
NotCleared(c) == c

\* st.cache_data.clear()
Cleared(c) == <<>>

Tick ==
    /\ cache' = [i \in 1..Len(cache) |->
                   [cache[i] EXCEPT !.age = Min(@ + TickStep, AgeCap)]]
    /\ sess' = [s \in Sessions |->
                  [sess[s] EXCEPT !.timer = Min(@ + TickStep, AutoRefresh)]]
    /\ UNCHANGED runVars

\* A widget of the page changes: the script runs again.
WidgetChange(s) ==
    /\ sess[s].pc = "idle"
    /\ sess' = [sess EXCEPT ![s].pc = "load", ![s].button = FALSE]
    /\ UNCHANGED <<cache, runVars>>

\* line 246: st_autorefresh(interval=60000)
AutoRefreshFires(s) ==
    /\ sess[s].pc = "idle"
    /\ sess[s].timer >= AutoRefresh
    /\ sess' = [sess EXCEPT ![s].pc = "load", ![s].button = FALSE, ![s].timer = 0]
    /\ UNCHANGED <<cache, runVars>>

\* The user presses "Refresh Data Now": the script runs again with the button
\* set.  What the cache holds was read before this press.
PressRefresh(s) ==
    /\ sess[s].pc = "idle"
    /\ sess' = [sess EXCEPT ![s].pc = "load", ![s].button = TRUE]
    /\ cache' = [i \in 1..Len(cache) |->
                   [cache[i] EXCEPT !.stale = @ \cup {s}]]
    /\ UNCHANGED runVars

\* line 31: load_tables() behind the cache (lines 18-28)
CachedLoad(s) ==
    /\ sess[s].pc = "load"
    /\ \E hit \in {h \in BOOLEAN : (h => CanHit(cache)) /\ (~h => CanMiss(cache))} :
          IF hit
          THEN /\ sess' = [sess EXCEPT ![s].pc = "button",
                                       ![s].data = [age |-> cache[1].age,
                                                    stale |-> s \in cache[1].stale]]
               /\ cache' = cache
          ELSE /\ cache' = <<ReadStore>>
               /\ sess' = [sess EXCEPT ![s].pc = "button",
                                       ![s].data = [age |-> ReadStore.age,
                                                    stale |-> s \in ReadStore.stale]]
    /\ UNCHANGED runVars

\* lines 64-66: a pressed button clears the cache and reruns the script
RefreshButton(s) ==
    /\ sess[s].pc = "button"
    /\ IF sess[s].button
       THEN /\ cache' = Cleared(cache)
            /\ sess' = [sess EXCEPT ![s].pc = "load", ![s].button = FALSE,
                                    ![s].follows = TRUE, ![s].data = NoData]
       ELSE /\ cache' = cache
            /\ sess' = [sess EXCEPT ![s].pc = "render"]
    /\ UNCHANGED runVars

\* lines 72-251: the page is drawn from the tables of this run
Render(s) ==
    /\ sess[s].pc = "render"
    /\ sess' = [sess EXCEPT ![s].pc = "idle", ![s].follows = FALSE,
                            ![s].data = NoData]
    /\ UNCHANGED <<cache, runVars>>

CacheNext ==
    \/ Tick
    \/ \E s \in Sessions :
          \/ WidgetChange(s)
          \/ AutoRefreshFires(s)
          \/ PressRefresh(s)
          \/ CachedLoad(s)
          \/ RefreshButton(s)
          \/ Render(s)

\* ========================================================= initial states
CacheIdle == cache = <<>> /\ sess = [s \in Sessions |-> IdleSession]

DefaultChannel ==
    [cols |-> ChannelCols, rows |-> <<CRow(Num(1), Num(2), Num(1), Ts(0))>>]

\* The cells of a column the table does not have are never read: they are
\* given one value.
Canon(t) ==
    [cols |-> t.cols,
     rows |-> [i \in 1..Len(t.rows) |->
                 [c \in DOMAIN t.rows[i] |->
                    IF c \in t.cols THEN t.rows[i][c]
                    ELSE IF c \in {"published_at", "fetched_at"} THEN NaT
                    ELSE IF c = "title" THEN 0
                    ELSE Null]]]

SeqsUpTo(S, n) == UNION {[1..k -> S] : k \in 0..n}

InitRun(vs, cs) ==
    /\ pc = "load"
    /\ Fresh
    /\ top_n = TopNDefault
    /\ video_stats = vs
    /\ channel_stats = cs
    /\ CacheIdle

\* Tables whose counts, nulls and non-numeric values vary.
ViewCells == {Null, Bad, Num(0), Num(1), Num(MaxCount)}
LikeCells == {Num(0), Num(MaxCount)}
CommentCells == {Num(1), Null}
EngageKinds == ViewCells \X LikeCells \X CommentCells
EngageCols == {VideoCols, VideoCols \ {"views"}, VideoCols \ {"likes", "comments"}}

EngageTables ==
    {Canon([cols |-> C,
            rows |-> [i \in 1..Len(ks) |->
                        VRow(i, ks[i][1], ks[i][2], Num(0), ks[i][3], Ts(0), Ts(0))]]) :
        C \in EngageCols, ks \in SeqsUpTo(EngageKinds, MaxEngageRows)}

InitEngage == \E vs \in EngageTables : InitRun(vs, DefaultChannel)

SpecEngage == InitEngage /\ [][RunNext]_vars

\* Tables for the rankings: every table of up to MaxRows rows of three kinds,
\* and long tables (PieN to MaxLongRows rows) that repeat such a table; every
\* key has ties and the keys order the kinds differently.  A kind is
\* <<views, likes, dislikes, comments>>.
RankKinds == {<<2, 0, 1, 0>>, <<1, 1, 0, 0>>, <<0, 1, 0, 1>>}

RankTable(ks) ==
    [cols |-> VideoCols,
     rows |-> [i \in 1..Len(ks) |->
                 VRow(i, Num(ks[i][1]), Num(ks[i][2]), Num(ks[i][3]),
                      Num(ks[i][4]), Ts(0), Ts(0))]]

Repeat(ks, n) == [i \in 1..n |-> ks[((i - 1) % Len(ks)) + 1]]

RankTables ==
    {RankTable(ks) : ks \in SeqsUpTo(RankKinds, MaxRows)}
    \cup {RankTable(Repeat(ks, n)) :
            ks \in SeqsUpTo(RankKinds, MaxRows) \ {<<>>}, n \in PieN..MaxLongRows}

InitRank == \E vs \in RankTables : InitRun(vs, DefaultChannel)

SpecRank == InitRank /\ [][RunNext]_vars

\* Tables whose timestamps vary: midnight, 23:59:59 and 23:59:59.5 of each
\* day, and NaT.  Either published_at varies (fetched_at is set), or there is
\* no published_at column and fetched_at varies, in the descending order of
\* the query (NULLs first).
TimesOfDay == {0, DayMs - SecMs, DayMs - SecMs + 500}
Stamps == {NaT} \cup {Ts(d * DayMs + o) : d \in 0..MaxDay, o \in TimesOfDay}

StampGE(a, b) == a.nat \/ (~b.nat /\ a.t >= b.t)

PublishedTables ==
    {[cols |-> VideoCols,
      rows |-> [i \in 1..Len(ps) |->
                  VRow(i, Num(i), Num(1), Num(Len(ps) - i), Num(0), ps[i], Ts(0))]] :
        ps \in SeqsUpTo(Stamps, MaxDateRows)}

FetchedTables ==
    {Canon([cols |-> VideoCols \ {"published_at"},
            rows |-> [i \in 1..Len(fs) |->
                        VRow(i, Num(i), Num(1), Num(Len(fs) - i), Num(0), NaT, fs[i])]]) :
        fs \in {f \in SeqsUpTo(Stamps, MaxDateRows) :
                  \A i \in 1..(Len(f) - 1) : StampGE(f[i], f[i + 1])}}

InitDates == \E vs \in PublishedTables \cup FetchedTables : InitRun(vs, DefaultChannel)

SpecDates == InitDates /\ [][RunNext]_vars

\* Channel tables whose latest row and columns vary.
OneVideo ==
    [cols |-> VideoCols,
     rows |-> <<VRow(1, Num(1), Num(1), Num(0), Num(0), Ts(0), Ts(0))>>]

KpiCells == {Null, Bad} \cup {Num(i) : i \in 0..MaxCount}
KpiCols == {"subscribers", "total_views", "total_videos"}

ChannelTables ==
    {Canon([cols |-> C \cup {"fetched_at"}, rows |-> rs]) :
        C \in SUBSET KpiCols,
        rs \in {<<>>} \cup UNION {{<<CRow(s, v, n, Ts(0))>>,
                                   <<CRow(Num(1), Num(1), Num(1), Ts(0)), CRow(s, v, n, Ts(DayMs))>>} :
                                      s \in KpiCells, v \in KpiCells, n \in KpiCells}}

InitKpi == \E cs \in ChannelTables : InitRun(OneVideo, cs)

SpecKpi == InitKpi /\ [][RunNext]_vars

\* Tables with one of the expected columns missing, with no rows, with null
\* and non-numeric values, with a day between the rows that a date range can
\* pick.
ShapeRows ==
    {<<>>,
     <<VRow(1, Num(1), Null, Num(0), Bad, Ts(0), Ts(0))>>,
     <<VRow(1, Num(1), Num(1), Num(0), Num(0), Ts(MaxDay * DayMs), Ts(MaxDay * DayMs)),
       VRow(2, Num(0), Num(2), Num(1), Num(0), Ts(0), Ts(0))>>}

ShapeCols == {VideoCols} \cup {VideoCols \ {c} : c \in VideoCols}

ShapeChannels ==
    {DefaultChannel,
     [cols |-> ChannelCols, rows |-> <<>>],
     Canon([cols |-> ChannelCols \ {"subscribers"}, rows |-> DefaultChannel.rows]),
     Canon([cols |-> ChannelCols \ {"fetched_at"}, rows |-> DefaultChannel.rows])}

InitShapes ==
    \E C \in ShapeCols, rs \in ShapeRows, cs \in ShapeChannels :
        InitRun(Canon([cols |-> C, rows |-> rs]), cs)

SpecShapes == InitShapes /\ [][RunNext]_vars

\* Both sessions have just opened the page: their first run starts.
InitCache ==
    /\ pc = "load" /\ Fresh /\ top_n = TopNDefault
    /\ video_stats = OneVideo /\ channel_stats = DefaultChannel
    /\ cache = <<>>
    /\ sess = [s \in Sessions |-> [IdleSession EXCEPT !.pc = "load"]]

SpecCache == InitCache /\ [][CacheNext]_vars

\* ================================================================ claims
IsPrepared == pc \in {"overview", "metrics", "charts", "table", "done"}
AfterMetrics == pc \in {"charts", "table", "done"}
AfterCharts == pc \in {"table", "done"}

\* The value pd.to_numeric(...).fillna(0) leaves in a numeric column.
CoercedInput(i, col) ==
    LET raw == videos_df.rows[filtered_videos[i].idx]
    IN IF col \in videos_df.cols /\ raw[col].k = "num" THEN raw[col].v ELSE 0

\* C1: for every row of the filtered table, after numeric coercion (views,
\* likes, comments are the input's numbers, 0 for a missing, null or
\* non-numeric value), engagement_rate is (likes + comments) / views when
\* views is not 0 and 0 when views is 0; it is always a finite number >= 0,
\* never NaN, infinite or missing.
C1_EngagementRate ==
    IsPrepared =>
        \A i \in 1..Len(filtered_videos) :
            LET r == filtered_videos[i]
                e == r.engagement_rate
            IN /\ r.views = CoercedInput(i, "views")
               /\ r.likes = CoercedInput(i, "likes")
               /\ r.comments = CoercedInput(i, "comments")
               /\ e.k = "num" /\ e.d > 0 /\ e.n >= 0
               /\ IF r.views # 0
                  THEN e.n * r.views = (r.likes + r.comments) * e.d
                  ELSE e.n = 0

\* A run in which one row has zero views but likes or comments, and another
\* has a positive rate.
C1_Witness ==
    /\ IsPrepared
    /\ \E i, j \in 1..Len(filtered_videos) :
          /\ filtered_videos[i].views = 0
          /\ filtered_videos[i].likes + filtered_videos[i].comments > 0
          /\ filtered_videos[j].views # 0
          /\ filtered_videos[j].engagement_rate.n > 0

Idxs(rows) == {rows[i].idx : i \in 1..Len(rows)}

\* `ranked` holds min(n, rows) distinct rows of the filtered table, in
\* descending order of key, none smaller than a row left out.
RankedBy(ranked, key, n) ==
    /\ Len(ranked) = Min(n, Len(filtered_videos))
    /\ Range(ranked) \subseteq Range(filtered_videos)
    /\ Cardinality(Idxs(ranked)) = Len(ranked)
    /\ \A i, j \in 1..Len(ranked) :
          i < j => ~FloatLT(KeyOf(ranked[i], key), KeyOf(ranked[j], key))
    /\ \A i \in 1..Len(ranked) : \A j \in 1..Len(filtered_videos) :
          filtered_videos[j].idx \notin Idxs(ranked)
              => ~FloatLT(KeyOf(ranked[i], key), KeyOf(filtered_videos[j], key))

\* C2 as stated: each of the four rankings (views, engagement_rate, likes,
\* dislikes) holds exactly min(top_n, rows) rows, in descending order, each
\* >= every row left out.  (The dislikes ranking is looked at when the script
\* computes it.)
C2_AsStated ==
    AfterCharts =>
        /\ RankedBy(df_top_n, "views", top_n)
        /\ RankedBy(top_eng, "engagement_rate", top_n)
        /\ RankedBy(top_likes, "likes", top_n)
        /\ totals.dislikes > 0 => RankedBy(top_dislikes, "dislikes", top_n)

\* C2 amended: the rankings by views and by engagement_rate hold
\* min(top_n, rows) rows, the rankings by likes and by dislikes hold
\* min(10, rows) rows whatever top_n is (the dislikes ranking exists only when
\* the dislikes sum is positive); all are descending and each row is >= every
\* row left out.
C2_Rankings ==
    AfterCharts =>
        /\ RankedBy(df_top_n, "views", top_n)
        /\ RankedBy(top_eng, "engagement_rate", top_n)
        /\ RankedBy(top_likes, "likes", PieN)
        /\ totals.dislikes > 0 => RankedBy(top_dislikes, "dislikes", PieN)

\* A run over more than 10 rows with the slider at its minimum: the views
\* ranking is cut at top_n, the likes and dislikes rankings at 10.
C2_Witness ==
    /\ AfterCharts
    /\ Len(filtered_videos) > PieN
    /\ top_n = TopNMin
    /\ Len(df_top_n) = TopNMin /\ Len(top_eng) = TopNMin
    /\ Len(top_likes) = PieN /\ Len(top_dislikes) = PieN

\* Rows with equal keys come in the order of the input table, and none is
\* returned while an earlier row with the same key is left out.
TiesInInputOrder(ranked, key) ==
    /\ \A i, j \in 1..Len(ranked) :
          (i < j /\ FloatEQ(KeyOf(ranked[i], key), KeyOf(ranked[j], key)))
              => ranked[i].idx < ranked[j].idx
    /\ \A i \in 1..Len(ranked) : \A j \in 1..Len(filtered_videos) :
          (/\ filtered_videos[j].idx \notin Idxs(ranked)
           /\ FloatEQ(KeyOf(ranked[i], key), KeyOf(filtered_videos[j], key)))
              => ranked[i].idx < filtered_videos[j].idx

\* C3: in every ranking (views, engagement_rate, likes, dislikes) rows with
\* equal values of the ranking field are ordered, and selected at the
\* cut-off, by their original input order.
C3_StableTies ==
    AfterCharts =>
        /\ TiesInInputOrder(df_top_n, "views")
        /\ TiesInInputOrder(top_eng, "engagement_rate")
        /\ TiesInInputOrder(top_likes, "likes")
        /\ TiesInInputOrder(top_dislikes, "dislikes")

\* C4: with both date bounds present, the rows kept are exactly those whose
\* timestamp t in the date column satisfies start 00:00:00 <= t <=
\* end 23:59:59, in their original relative order.
C4_DateFilter ==
    (IsPrepared /\ start_date # <<>> /\ end_date # <<>>) =>
        LET lo == start_date[1] * 24 * 3600 * 1000
            hi == end_date[1] * 24 * 3600 * 1000 + ((23 * 60 + 59) * 60 + 59) * 1000
            t(i) == videos_df.rows[i][date_col]
        IN /\ Idxs(filtered_videos) =
                {i \in 1..Len(videos_df.rows) : ~t(i).nat /\ lo <= t(i).t /\ t(i).t <= hi}
           /\ \A i, j \in 1..Len(filtered_videos) :
                 i < j => filtered_videos[i].idx < filtered_videos[j].idx

\* A single-day range that keeps a row stamped 23:59:59 and drops a later
\* row of the same day.
C4_Witness ==
    /\ IsPrepared /\ start_date # <<>> /\ start_date = end_date
    /\ \E i, j \in 1..Len(videos_df.rows) :
          /\ videos_df.rows[i][date_col] = Ts(start_date[1] * DayMs + DayMs - SecMs)
          /\ i \in Idxs(filtered_videos)
          /\ ~videos_df.rows[j][date_col].nat
          /\ DateOf(videos_df.rows[j][date_col]) = start_date[1]
          /\ j \notin Idxs(filtered_videos)

NoRollups ==
    /\ totals = [likes |-> 0, dislikes |-> 0, comments |-> 0, views |-> 0]
    /\ avg_engagement = Rat(0, 1)

IsGlobalMax(m, col) ==
    /\ Len(m) = 1
    /\ m[1].src = "global"
    /\ m[1].idx \in 1..Len(videos_df.rows)
    /\ videos_df.rows[m[1].idx][col] = Num(m[1].value)
    /\ \A i \in 1..Len(videos_df.rows) :
          videos_df.rows[i][col].k = "num" => videos_df.rows[i][col].v <= m[1].value

AfterSidebar == pc \in {"prepare", "overview", "metrics", "charts", "table", "done"}

ClaimedDateCol ==
    IF "published_at" \in videos_df.cols /\ ~AllNull(videos_df, "published_at")
    THEN "published_at" ELSE "fetched_at"

\* C7 as stated: the date column is published_at if that column is present
\* and non-null for at least one row, fetched_at otherwise; filtering is
\* disabled (no start, no end) only when the chosen column is absent or
\* entirely null.  (Looked at on tables that have rows.)
C7_AsStated ==
    (AfterSidebar /\ videos_df.rows # <<>>) =>
        /\ date_col = ClaimedDateCol
        /\ (start_date = <<>> /\ end_date = <<>>)
              <=> (ClaimedDateCol \notin videos_df.cols \/ AllNull(videos_df, ClaimedDateCol))

\* C7 amended: the date column is published_at whenever the table has that
\* column, even if it is null in every row, and fetched_at otherwise;
\* filtering is disabled (no start, no end, every row kept in order) exactly
\* when the chosen column is entirely null (or the table has no rows).
C7_DateColumn ==
    AfterSidebar =>
        /\ date_col = (IF "published_at" \in videos_df.cols
                       THEN "published_at" ELSE "fetched_at")
        /\ date_col \in videos_df.cols
        /\ (start_date = <<>>) <=> AllNull(videos_df, date_col)
        /\ (end_date = <<>>) <=> AllNull(videos_df, date_col)
        /\ (IsPrepared /\ start_date = <<>>) =>
              [i \in 1..Len(filtered_videos) |-> filtered_videos[i].idx]
                  = [i \in 1..Len(videos_df.rows) |-> i]

\* published_at is present and null in every row while fetched_at is not:
\* the filter is off and both rows are kept.
C7_Witness ==
    /\ IsPrepared /\ date_col = "published_at"
    /\ Len(videos_df.rows) = 2 /\ AllNull(videos_df, "published_at")
    /\ ~AllNull(videos_df, "fetched_at")
    /\ start_date = <<>> /\ Len(filtered_videos) = 2

AfterOverview == pc \in {"metrics", "charts", "table", "done"}

LatestSnapshot == channel_stats.rows[Len(channel_stats.rows)]

HasNumber(col) ==
    /\ col \in channel_stats.cols
    /\ channel_stats.rows # <<>>
    /\ LatestSnapshot[col].k = "num"

\* C8: for the latest channel snapshot avg_views_per_video is
\* total_views / max(total_videos, 1); with total_videos = 0 it is
\* total_views, and the KPI is shown, not a fault.
C8_AvgViews ==
    (AfterOverview /\ HasNumber("total_views") /\ HasNumber("total_videos")) =>
        LET tv == LatestSnapshot.total_views.v
            n == LatestSnapshot.total_videos.v
            a == kpi.avg_views
        IN /\ a.k = "val" /\ a.d > 0
           /\ a.n * (IF n >= 1 THEN n ELSE 1) = tv * a.d
           /\ n = 0 => a.n = tv * a.d

\* The latest of two snapshots has no videos and some views.
C8_Witness ==
    /\ AfterOverview /\ HasNumber("total_views") /\ HasNumber("total_videos")
    /\ Len(channel_stats.rows) = 2
    /\ LatestSnapshot.total_videos.v = 0
    /\ LatestSnapshot.total_views.v = MaxCount
    /\ kpi.avg_views.k = "val"

ShowsInt(shown, col) ==
    IF HasNumber(col) THEN shown = [k |-> "val", n |-> LatestSnapshot[col].v, d |-> 1]
    ELSE shown = [k |-> "na", n |-> 0, d |-> 1]

\* C9: each of the four channel KPIs shows its value exactly when its own
\* input fields are present and numeric in the latest snapshot, and N/A
\* (never a number or NaN) when one is missing, null, or there is no
\* snapshot, whatever happens to the other three.
C9_IndependentKpis ==
    AfterOverview =>
        /\ ShowsInt(kpi.subscribers, "subscribers")
        /\ ShowsInt(kpi.total_views, "total_views")
        /\ ShowsInt(kpi.total_videos, "total_videos")
        /\ kpi.avg_views.k = (IF HasNumber("total_views") /\ HasNumber("total_videos")
                              THEN "val" ELSE "na")

\* Partial success: no subscribers column and a null total_videos, while
\* total_views is shown.
C9_Witness ==
    /\ AfterOverview
    /\ "subscribers" \notin channel_stats.cols
    /\ kpi.subscribers.k = "na"
    /\ kpi.total_views.k = "val"
    /\ "total_videos" \in channel_stats.cols
    /\ kpi.total_videos.k = "na"
    /\ kpi.avg_views.k = "na"

\* C6: whatever the shape of the two tables, one run of the script from the
\* date filter through the final table completes and no exception propagates.
C6_NoException ==
    ~(pc = "error" /\ err \in {"fallback argmax", "growth chart", "video charts", "final table"})

====
